---- MODULE Spec2Model ----
(***************************************************************************)
(* Model of goohttp's HttpServer (src/src/http_server.rs): the server      *)
(* handle (bind / serve / shutdown), the accept loop task spawned by       *)
(* serve(), and the per-connection handler task with its request-line      *)
(* parsing, dispatch through the Router and response serialization.        *)
(*                                                                         *)
(* Text is a sequence of one-character strings, so that split(' ') and the *)
(* byte layout of a response are computed, not assumed.                    *)
(***************************************************************************)
EXTENDS Integers, Sequences, FiniteSets, TLC

(* ---------------------------- bounds ---------------------------------- *)
MaxConns == 2        \* client connections opened in one behaviour
MaxCalls == 3        \* serve()/shutdown() calls made on the handle
MaxAcceptErrs == 1   \* failed accept() calls in one behaviour

Conns == 1..MaxConns

(* ------------------------- text helpers -------------------------------- *)
None == "None"
SP == " "
CRLF == "\r\n"

RECURSIVE Concat(_)
Concat(ss) == IF ss = <<>> THEN <<>> ELSE Head(ss) \o Concat(Tail(ss))

Prefix(s, n) == SubSeq(s, 1, n)

(* str::split(' '): every single space separates; n spaces give n+1 tokens, *)
(* some of them empty.                                                      *)
RECURSIVE SplitAcc(_, _, _)
SplitAcc(s, cur, acc) ==
    IF s = <<>> THEN Append(acc, cur)
    ELSE IF Head(s) = SP THEN SplitAcc(Tail(s), <<>>, Append(acc, cur))
    ELSE SplitAcc(Tail(s), Append(cur, Head(s)), acc)

Split(s) == SplitAcc(s, <<>>, <<>>)

(* ----------------- http crate: Method and Uri parsing ------------------- *)
Letters == {"G", "E", "T", "a", "b", "c", "x", "H", "1"}
\* bytes http::Method accepts (RFC 7230 tchar); "/" and "<" are not tchar
MethodChars == Letters \cup {"*"}
\* bytes http::Uri accepts in a request target; "<" is rejected
UriChars == Letters \cup {"/", "*"}

\* Method::from_bytes: Err on an empty token or a non-token byte, otherwise
\* Ok (a standard method or an extension method)
MethodFromBytes(tok) ==
    IF tok # <<>> /\ \A i \in 1..Len(tok) : tok[i] \in MethodChars
    THEN [ok |-> TRUE, val |-> tok]
    ELSE [ok |-> FALSE, val |-> <<>>]

\* str::parse::<Uri>: Err on the empty string, on an invalid byte, and on an
\* authority followed by a path; Ok for origin-form ("/..."), "*" and a bare
\* authority
UriParse(tok) ==
    IF /\ tok # <<>>
       /\ \A i \in 1..Len(tok) : tok[i] \in UriChars
       /\ (tok[1] = "/" \/ \A i \in 1..Len(tok) : tok[i] # "/")
    THEN [ok |-> TRUE, val |-> tok]
    ELSE [ok |-> FALSE, val |-> <<>>]

\* the ErrorKind of every Err the handler returns
InvalidData == "InvalidData"

\* a request line must name a protocol version
ParseRequestLine_NeedsVersion(line) ==
    LET head_line == Split(line)
        method == MethodFromBytes(head_line[1])
        uri == IF Len(head_line) >= 2 THEN UriParse(head_line[2])
               ELSE [ok |-> FALSE, val |-> <<>>]
    IN  IF ~method.ok \/ ~uri.ok \/ Len(head_line) < 3
        THEN [ok |-> FALSE, method |-> <<>>, uri |-> <<>>, err |-> InvalidData]
        ELSE [ok |-> TRUE, method |-> method.val, uri |-> uri.val, err |-> None]

\* the target is taken as it comes
ParseRequestLine_AnyTarget(line) ==
    LET head_line == Split(line)
        method == MethodFromBytes(head_line[1])
    IN  IF ~method.ok \/ Len(head_line) < 2
        THEN [ok |-> FALSE, method |-> <<>>, uri |-> <<>>, err |-> InvalidData]
        ELSE [ok |-> TRUE, method |-> method.val, uri |-> head_line[2], err |-> None]

\* the request-line part of handler(): the first two tokens of split(' ');
\* err is the ErrorKind of the Err returned
ParseRequestLine(line) ==
    LET head_line == Split(line)
        method == MethodFromBytes(head_line[1])
        uri == IF Len(head_line) >= 2 THEN UriParse(head_line[2])
               ELSE [ok |-> FALSE, val |-> <<>>]
    IN  IF ~method.ok
        THEN [ok |-> FALSE, method |-> <<>>, uri |-> <<>>, err |-> InvalidData]
        ELSE IF ~uri.ok
        THEN [ok |-> FALSE, method |-> <<>>, uri |-> <<>>, err |-> InvalidData]
        ELSE [ok |-> TRUE, method |-> method.val, uri |-> uri.val, err |-> None]

\* Request::builder().method(method).uri(uri).body(Body::empty())
NewRequest(method, uri) ==
    [method |-> method, uri |-> uri, headers |-> <<>>, body |-> <<>>]

(* ------------------- hyper / axum: the Router -------------------------- *)
GET == <<"G", "E", "T">>
HttpVersion == "HTTP/1.1"

Frame(bytes) == [ok |-> TRUE, val |-> bytes]

\* router.call(req): the route table of the model. "/" answers `index` as
\* tests/router_macro does; "/a" streams its body in two data frames; every
\* other target gets the Router's fallback, 404 with an empty body.
RouterCall(req) ==
    IF req.uri = <<"/">> /\ req.method = GET
    THEN [version |-> HttpVersion, status |-> 200,
          headers |-> << [name |-> "content-type", value |-> "text/plain"] >>,
          frames |-> << Frame(<<"i", "n", "d", "e", "x">>) >>]
    ELSE IF req.uri = <<"/", "a">> /\ req.method = GET
    THEN [version |-> HttpVersion, status |-> 200,
          headers |-> <<>>,
          frames |-> << Frame(<<"h", "e">>), Frame(<<"y">>) >>]
    ELSE [version |-> HttpVersion, status |-> 404,
          headers |-> <<>>,
          frames |-> <<>>]

(* --------------------- handler(): nested functions ---------------------- *)
\* request_to_response: Response::builder() (HTTP/1.1, 200, no headers) with
\* the body set to the first data frame of the Router's response, or to the
\* empty vec when there is none or it is an error
request_to_response(routed) ==
    [version |-> HttpVersion,
     status |-> 200,
     headers |-> <<>>,
     body |-> IF routed.frames # <<>> /\ routed.frames[1].ok
              THEN routed.frames[1].val ELSE <<>>]

\* StatusCode::as_u16 formatted with {}
StatusText(code) ==
    CASE code = 200 -> "200"
      [] code = 404 -> "404"
      [] code = 405 -> "405"
      [] code = 299 -> "299"

\* StatusCode::canonical_reason
CanonicalReason(code) ==
    CASE code = 200 -> "OK"
      [] code = 404 -> "Not Found"
      [] code = 405 -> "Method Not Allowed"
      [] OTHER -> None

\* HeaderMap::into_iter: the entries grouped by name in the order the names
\* were first inserted; the first value of a name comes with Some(name), its
\* further values with None
RECURSIVE HeaderMapIntoIter(_)
HeaderMapIntoIter(headers) ==
    IF headers = <<>> THEN <<>>
    ELSE LET h == Head(headers)
             same == SelectSeq(Tail(headers), LAMBDA e : e.name = h.name)
             rest == SelectSeq(Tail(headers), LAMBDA e : e.name # h.name)
         IN  << h >>
             \o [i \in 1..Len(same) |-> [name |-> None, value |-> same[i].value]]
             \o HeaderMapIntoIter(rest)

Panic == << "panic" >>

RECURSIVE HeaderLines(_)
HeaderLines(entries) ==
    IF entries = <<>> THEN <<>>
    ELSE << Head(entries).name, ": ", Head(entries).value, CRLF >>
         \o HeaderLines(Tail(entries))

\* response_to_bytes: status line, header lines, blank line, body
response_to_bytes(response) ==
    LET entries == HeaderMapIntoIter(response.headers)
    IN  IF CanonicalReason(response.status) = None THEN Panic
        ELSE IF \E i \in 1..Len(entries) : entries[i].name = None THEN Panic
        ELSE << response.version, SP, StatusText(response.status), SP,
                CanonicalReason(response.status), CRLF >>
             \o HeaderLines(entries)
             \o << CRLF >>
             \o response.body

(* ----------------------- client byte streams ---------------------------- *)
\* What a client sends, as BufRead::lines() will see it: the lines (without
\* their terminator), then either end-of-stream (closes) or nothing more while
\* the connection stays open.  InvalidUtf8 is a line lines() answers with Err.
InvalidUtf8 == << "\\xFF" >>

LineGetRoot == <<"G", "E", "T", " ", "/", " ", "H", "1">>     \* GET / H1
LineGetA == <<"G", "E", "T", " ", "/", "a">>                  \* GET /a
LineGetX == <<"G", "E", "T", " ", "/", "x">>                  \* GET /x
LineHeaderB == <<"b", "b">>
LineHeaderC == <<"c">>
LineBody == <<"x", "x">>                                      \* bytes of a body
LineOneToken == <<"G", "E", "T">>                             \* GET
LineBadTarget == <<"G", "E", "T", " ", "<">>                  \* GET <

Streams ==
    << [items |-> << LineGetRoot, <<>> >>, closes |-> FALSE],
       [items |-> <<>>, closes |-> TRUE],
       [items |-> << LineGetA, LineHeaderB, <<>>, LineBody >>, closes |-> FALSE],
       [items |-> << LineGetA, LineHeaderC >>, closes |-> TRUE],
       [items |-> << LineGetX, <<>> >>, closes |-> TRUE],
       [items |-> << <<>>, LineGetRoot >>, closes |-> FALSE],
       [items |-> << LineOneToken, <<>> >>, closes |-> FALSE],
       [items |-> << LineBadTarget >>, closes |-> TRUE],
       [items |-> << LineGetRoot, InvalidUtf8 >>, closes |-> FALSE],
       [items |-> << LineGetRoot >>, closes |-> FALSE] >>

StreamIds == 1..Len(Streams)
\* the streams offered to clients while serve()/shutdown() calls are explored
LifecycleStreamIds == {1, 2}
\* the stream of a client that asks for `/`
GetRootStreamIds == {1}

\* the index of the item at which lines().take_while(..).collect() returns or
\* panics: the first empty or invalid line; 0 when there is none
RECURSIVE FirstStop(_, _)
FirstStop(items, i) ==
    IF i > Len(items) THEN 0
    ELSE IF items[i] = <<>> \/ items[i] = InvalidUtf8 THEN i
    ELSE FirstStop(items, i + 1)

(* ------------------------------ state ----------------------------------- *)
VARIABLES
    addr,        \* HttpServer.addr: the port given to bind(); 0 = ephemeral
    main_task,   \* HttpServer.main_task: <<>> (None) or <<id>> (Some) of a loop task
    tasks,       \* the accept-loop tasks spawned by serve(), by id
    conns,       \* the client connections and their handler tasks; request and
                 \* response are <<>> until set, then << value >>
    log,         \* how often each message was logged
    calls,       \* serve()/shutdown() calls made so far
    ret,         \* what the last serve()/shutdown() call returned
    worker,      \* the task the runtime's thread is polling, when the runtime
                 \* has a single thread: <<>>, <<"loop", t>> or <<"handler", c>>
    probe        \* an input handed to a function of the handler on its own,
                 \* and what the function returned for it

server == << addr, main_task, tasks, conns, log, calls, ret >>
vars == << addr, main_task, tasks, conns, log, calls, ret, worker, probe >>

NoProbe == [kind |-> "none", input |-> <<>>, done |-> FALSE, output |-> <<>>]

LogMsgs == {"Starting...", "Started!", "Stopped.", "bind error",
            "accept error", "connected"}

Logged(l, msgs) == [m \in LogMsgs |-> IF m \in msgs THEN l[m] + 1 ELSE l[m]]

NoConn ==
    [pc |-> "idle", stream |-> 0, sent |-> FALSE, by |-> 0,
     http_request |-> <<>>, request |-> <<>>, response |-> <<>>,
     result |-> None, dispatched |-> 0,
     writes |-> 0, attempted |-> <<>>, wire |-> <<>>, open |-> FALSE]

TaskIds == 1..Len(tasks)
Listening(t) == tasks[t].pc # "cancelled"

\* HttpServer::bind
InitServer ==
    /\ addr \in {0, 80}
    /\ main_task = <<>>
    /\ tasks = <<>>
    /\ conns = [c \in Conns |-> NoConn]
    /\ log = [m \in LogMsgs |-> 0]
    /\ calls = 0
    /\ ret = None

Init ==
    /\ InitServer
    /\ worker = <<>>
    /\ probe = NoProbe

(* --------------------- HttpServer: serve / shutdown --------------------- *)
\* an accept-loop task: where it is, whether abort() was called on it, the
\* connections waiting at its listener, the accept() calls it has made
NewTask == [pc |-> "spawned", aborted |-> FALSE, backlog |-> <<>>, accepts |-> 0]

\* serve(), TcpListener::bind answered Ok: the accept loop is spawned and its
\* JoinHandle stored (a JoinHandle stored before is dropped, which detaches
\* its task).  A fixed port cannot be bound while a listener of this handle
\* still holds it; port 0 always gets a fresh port.
ServeOk ==
    /\ calls < MaxCalls
    /\ addr # 0 => \A t \in TaskIds : ~Listening(t)
    /\ tasks' = Append(tasks, NewTask)
    /\ main_task' = << Len(tasks) + 1 >>
    /\ log' = Logged(log, {"Starting...", "Started!"})
    /\ calls' = calls + 1
    /\ ret' = "Ok"
    /\ UNCHANGED << addr, conns >>

\* a serve() that gives up the stored JoinHandle before it binds
ServeBindErr_ClearsTask ==
    /\ calls < MaxCalls
    /\ log' = Logged(log, {"Starting...", "bind error"})
    /\ calls' = calls + 1
    /\ ret' = "Err"
    /\ main_task' = <<>>
    /\ UNCHANGED << addr, tasks, conns >>

\* serve(), TcpListener::bind answered Err: logged and returned
ServeBindErr ==
    /\ calls < MaxCalls
    /\ log' = Logged(log, {"Starting...", "bind error"})
    /\ calls' = calls + 1
    /\ ret' = "Err"
    /\ UNCHANGED << addr, main_task, tasks, conns >>

\* a shutdown() with the log line outside the `if let`
Shutdown_AlwaysLogs ==
    /\ calls < MaxCalls
    /\ IF main_task # <<>>
       THEN /\ tasks' = [tasks EXCEPT ![main_task[1]].aborted = TRUE]
            /\ main_task' = <<>>
       ELSE UNCHANGED << tasks, main_task >>
    /\ log' = Logged(log, {"Stopped."})
    /\ calls' = calls + 1
    /\ ret' = "()"
    /\ UNCHANGED << addr, conns >>

\* a shutdown() that also kills the handler tasks, as its doc comment says
Shutdown_KillsHandlers ==
    /\ calls < MaxCalls
    /\ IF main_task # <<>>
       THEN /\ tasks' = [tasks EXCEPT ![main_task[1]].aborted = TRUE]
            /\ main_task' = <<>>
            /\ log' = Logged(log, {"Stopped."})
            /\ conns' = [c \in Conns |->
                  IF conns[c].pc \in {"read", "dispatch", "write"}
                  THEN [conns[c] EXCEPT !.pc = "cancelled", !.open = FALSE]
                  ELSE conns[c]]
       ELSE UNCHANGED << tasks, main_task, log, conns >>
    /\ calls' = calls + 1
    /\ ret' = "()"
    /\ UNCHANGED << addr >>

\* shutdown(): main_task.take(), and if there was one, abort() and a log line.
\* abort() only requests cancellation: the runtime drops the task's future
\* the next time the task is suspended at an await (LoopCancel).
Shutdown ==
    /\ calls < MaxCalls
    /\ IF main_task # <<>>
       THEN /\ tasks' = [tasks EXCEPT ![main_task[1]].aborted = TRUE]
            /\ main_task' = <<>>
            /\ log' = Logged(log, {"Stopped."})
       ELSE UNCHANGED << tasks, main_task, log >>
    /\ calls' = calls + 1
    /\ ret' = "()"
    /\ UNCHANGED << addr, conns >>

(* ------------------------------ clients --------------------------------- *)
\* a client connects to a listening socket and waits in its backlog
ClientConnect(c, t, s) ==
    /\ conns[c].pc = "idle"
    /\ \A d \in 1..(c - 1) : conns[d].pc # "idle"
    /\ Listening(t)
    /\ conns' = [conns EXCEPT ![c] = [NoConn EXCEPT !.pc = "pending", !.stream = s]]
    /\ tasks' = [tasks EXCEPT ![t].backlog = Append(@, c)]
    /\ UNCHANGED << addr, main_task, log, calls, ret >>

\* the client sends its stream (and closes, if it is one that closes)
ClientSend(c) ==
    /\ conns[c].pc \in {"pending", "read"}
    /\ ~conns[c].sent
    /\ conns' = [conns EXCEPT ![c].sent = TRUE]
    /\ UNCHANGED << addr, main_task, tasks, log, calls, ret >>

(* ------------------------ serve(): the accept loop ----------------------- *)
\* the runtime polls the spawned task for the first time
LoopStart(t) ==
    /\ tasks[t].pc = "spawned"
    /\ ~tasks[t].aborted
    /\ tasks' = [tasks EXCEPT ![t].pc = "accept"]
    /\ UNCHANGED << addr, main_task, conns, log, calls, ret >>

\* accept() answered Ok: spawn(Self::handler(client, router)), then
\* sleep(refresh_rate).await
LoopAcceptOk(t) ==
    /\ tasks[t].pc = "accept"
    /\ tasks[t].backlog # <<>>
    /\ LET c == Head(tasks[t].backlog)
       IN  conns' = [conns EXCEPT ![c].pc = "read", ![c].by = t, ![c].open = TRUE]
    /\ tasks' = [tasks EXCEPT ![t].backlog = Tail(@), ![t].pc = "sleep",
                              ![t].accepts = @ + 1]
    /\ log' = Logged(log, {"connected"})
    /\ UNCHANGED << addr, main_task, calls, ret >>

\* an accept error that ends the loop: `break` in place of `continue`
LoopAcceptErr_EndsLoop(t) ==
    /\ tasks[t].pc = "accept"
    /\ log["accept error"] < MaxAcceptErrs
    /\ log' = Logged(log, {"accept error"})
    /\ tasks' = [tasks EXCEPT ![t].accepts = @ + 1, ![t].pc = "cancelled"]
    /\ UNCHANGED << addr, main_task, conns, calls, ret >>

\* accept() answered Err: logged, then `continue`, straight to the next
\* accept() with no await in between
LoopAcceptErr(t) ==
    /\ tasks[t].pc = "accept"
    /\ log["accept error"] < MaxAcceptErrs
    /\ log' = Logged(log, {"accept error"})
    /\ tasks' = [tasks EXCEPT ![t].accepts = @ + 1]
    /\ UNCHANGED << addr, main_task, conns, calls, ret >>

\* the sleep is over and the task was not aborted: next iteration
LoopWake(t) ==
    /\ tasks[t].pc = "sleep"
    /\ ~tasks[t].aborted
    /\ tasks' = [tasks EXCEPT ![t].pc = "accept"]
    /\ UNCHANGED << addr, main_task, conns, log, calls, ret >>

\* the runtime finds an aborted task suspended (never polled, or at the
\* sleep) and drops its future, and with it the TcpListener
LoopCancel(t) ==
    /\ tasks[t].aborted
    /\ tasks[t].pc \in {"spawned", "sleep"}
    /\ tasks' = [tasks EXCEPT ![t].pc = "cancelled"]
    /\ UNCHANGED << addr, main_task, conns, log, calls, ret >>

(* ------------------------------ handler() -------------------------------- *)
\* a handler whose error return leaks the TcpStream
Failed_LeavesOpen(conn) == [conn EXCEPT !.result = "Err", !.pc = "done"]

\* return Err(ErrorKind::InvalidData.into()): the handler ends, `client` is
\* dropped
Failed(conn) == [conn EXCEPT !.result = "Err", !.pc = "done", !.open = FALSE]

\* a handler that falls back to `GET /` when the request line does not parse
AfterCollect_DefaultsToRoot(conn, lines) ==
    LET got == [conn EXCEPT !.http_request = lines]
    IN  IF lines = <<>> THEN Failed(got)
        ELSE LET parsed == ParseRequestLine(lines[1])
             IN  [got EXCEPT !.request = IF parsed.ok
                                         THEN << NewRequest(parsed.method, parsed.uri) >>
                                         ELSE << NewRequest(GET, <<"/">>) >>,
                             !.pc = "dispatch"]

\* the lines after the request line become the headers of the Request
AfterCollect_KeepsHeaders(conn, lines) ==
    LET got == [conn EXCEPT !.http_request = lines]
    IN  IF lines = <<>> THEN Failed(got)
        ELSE LET parsed == ParseRequestLine(lines[1])
             IN  IF ~parsed.ok THEN Failed(got)
                 ELSE [got EXCEPT !.request =
                          << [NewRequest(parsed.method, parsed.uri)
                              EXCEPT !.headers = Tail(lines)] >>,
                                  !.pc = "dispatch"]

\* from the collected lines to the Request: the empty check, the request line
AfterCollect(conn, lines) ==
    LET got == [conn EXCEPT !.http_request = lines]
    IN  IF lines = <<>> THEN Failed(got)
        ELSE LET parsed == ParseRequestLine(lines[1])
             IN  IF ~parsed.ok THEN Failed(got)
                 ELSE [got EXCEPT !.request = << NewRequest(parsed.method, parsed.uri) >>,
                                  !.pc = "dispatch"]

\* lines().map(expect).take_while(non-empty).collect() returns: it blocks
\* until the client has sent an empty line or closed
HandlerRead(c) ==
    LET st == Streams[conns[c].stream]
        stop == FirstStop(st.items, 1)
    IN  /\ conns[c].pc = "read"
        /\ conns[c].sent
        /\ IF stop = 0 THEN st.closes ELSE st.items[stop] = <<>>
        /\ conns' = [conns EXCEPT ![c] =
              AfterCollect(@, IF stop = 0 THEN st.items
                              ELSE SubSeq(st.items, 1, stop - 1))]
        /\ UNCHANGED << addr, main_task, tasks, log, calls, ret >>

\* a panic that is not caught at the task boundary: it ends the accept loops
HandlerReadPanics_TakesLoopsDown(c) ==
    LET st == Streams[conns[c].stream]
        stop == FirstStop(st.items, 1)
    IN  /\ conns[c].pc = "read"
        /\ conns[c].sent
        /\ stop # 0
        /\ st.items[stop] = InvalidUtf8
        /\ conns' = [conns EXCEPT ![c].pc = "panicked", ![c].open = FALSE]
        /\ tasks' = [t \in TaskIds |-> [tasks[t] EXCEPT !.pc = "cancelled"]]
        /\ UNCHANGED << addr, main_task, log, calls, ret >>

\* a line that is not UTF-8: expect() panics, the task ends, the TcpStream
\* is dropped
HandlerReadPanics(c) ==
    LET st == Streams[conns[c].stream]
        stop == FirstStop(st.items, 1)
    IN  /\ conns[c].pc = "read"
        /\ conns[c].sent
        /\ stop # 0
        /\ st.items[stop] = InvalidUtf8
        /\ conns' = [conns EXCEPT ![c].pc = "panicked", ![c].open = FALSE]
        /\ UNCHANGED << addr, main_task, tasks, log, calls, ret >>

\* request_to_response(request, &mut router).await
Dispatched(conn) ==
    [conn EXCEPT !.response = << request_to_response(RouterCall(conn.request[1])) >>,
                 !.dispatched = @ + 1,
                 !.pc = "write"]

HandlerDispatch(c) ==
    /\ conns[c].pc = "dispatch"
    /\ conns' = [conns EXCEPT ![c] = Dispatched(@)]
    /\ UNCHANGED << addr, main_task, tasks, log, calls, ret >>

\* a handler that returns the write error: client.write_all(..)?
Written_ReturnsErr(conn, bytes, delivered, ok) ==
    [conn EXCEPT !.writes = @ + 1,
                 !.attempted = bytes,
                 !.wire = @ \o delivered,
                 !.result = IF ok THEN "Ok" ELSE "Err",
                 !.pc = "done",
                 !.open = FALSE]

\* if client.write_all(&response_to_bytes(response)).is_err() {}  Ok(())
Written(conn, bytes, delivered, ok) ==
    [conn EXCEPT !.writes = @ + 1,
                 !.attempted = bytes,
                 !.wire = @ \o delivered,
                 !.result = "Ok",
                 !.pc = "done",
                 !.open = FALSE]

HandlerWriteOk(c) ==
    /\ conns[c].pc = "write"
    /\ LET bytes == response_to_bytes(conns[c].response[1])
       IN  conns' = [conns EXCEPT ![c] = Written(@, bytes, bytes, TRUE)]
    /\ UNCHANGED << addr, main_task, tasks, log, calls, ret >>

\* write_all fails after delivering none or a part of the bytes
HandlerWriteErr(c) ==
    /\ conns[c].pc = "write"
    /\ LET bytes == response_to_bytes(conns[c].response[1])
       IN  \E n \in {0, Len(bytes) - 1} :
              conns' = [conns EXCEPT ![c] = Written(@, bytes, Prefix(bytes, n), FALSE)]
    /\ UNCHANGED << addr, main_task, tasks, log, calls, ret >>

(* --------------------------- specification ------------------------------ *)
\* a step of a runtime in which every task has a thread to run on
Parallel(A) == A /\ UNCHANGED << worker, probe >>

\* the whole server: every call on the handle, every task
Next ==
    \/ Parallel(ServeOk)
    \/ Parallel(ServeBindErr)
    \/ Parallel(Shutdown)
    \/ \E c \in Conns, t \in TaskIds, s \in LifecycleStreamIds : Parallel(ClientConnect(c, t, s))
    \/ \E c \in Conns : Parallel(ClientSend(c))
    \/ \E t \in TaskIds : Parallel(LoopStart(t))
    \/ \E t \in TaskIds : Parallel(LoopAcceptOk(t))
    \/ \E t \in TaskIds : Parallel(LoopAcceptErr(t))
    \/ \E t \in TaskIds : Parallel(LoopWake(t))
    \/ \E t \in TaskIds : Parallel(LoopCancel(t))
    \/ \E c \in Conns : Parallel(HandlerRead(c))
    \/ \E c \in Conns : Parallel(HandlerDispatch(c))
    \/ \E c \in Conns : Parallel(HandlerWriteOk(c))
    \/ \E c \in Conns : Parallel(HandlerWriteErr(c))

Spec == Init /\ [][Next]_vars

\* a server that is started once and keeps running, with clients sending
\* every stream of Streams
ServeOnce == calls = 0 /\ ServeOk

NextHandlers ==
    \/ Parallel(ServeOnce)
    \/ \E c \in Conns, t \in TaskIds, s \in StreamIds : Parallel(ClientConnect(c, t, s))
    \/ \E c \in Conns : Parallel(ClientSend(c))
    \/ \E t \in TaskIds : Parallel(LoopStart(t))
    \/ \E t \in TaskIds : Parallel(LoopAcceptOk(t))
    \/ \E t \in TaskIds : Parallel(LoopWake(t))
    \/ \E c \in Conns : Parallel(HandlerRead(c))
    \/ \E c \in Conns : Parallel(HandlerReadPanics(c))
    \/ \E c \in Conns : Parallel(HandlerDispatch(c))
    \/ \E c \in Conns : Parallel(HandlerWriteOk(c))
    \/ \E c \in Conns : Parallel(HandlerWriteErr(c))

SpecHandlers == Init /\ [][NextHandlers]_vars

\* the handle and its accept loops alone: every serve()/shutdown() call and
\* every step of the loops; accepted connections stay with their handlers
NextCalls ==
    \/ Parallel(ServeOk)
    \/ Parallel(ServeBindErr)
    \/ Parallel(Shutdown)
    \/ \E c \in Conns, t \in TaskIds, s \in LifecycleStreamIds : Parallel(ClientConnect(c, t, s))
    \/ \E t \in TaskIds : Parallel(LoopStart(t))
    \/ \E t \in TaskIds : Parallel(LoopAcceptOk(t))
    \/ \E t \in TaskIds : Parallel(LoopAcceptErr(t))
    \/ \E t \in TaskIds : Parallel(LoopWake(t))
    \/ \E t \in TaskIds : Parallel(LoopCancel(t))

SpecCalls == Init /\ [][NextCalls]_vars

\* a server that is started once and then shut down, with clients that send
\* a well-formed request
ShutdownOnce == calls = 1 /\ Shutdown

NextShutdown ==
    \/ Parallel(ServeOnce)
    \/ Parallel(ShutdownOnce)
    \/ \E c \in Conns, t \in TaskIds, s \in GetRootStreamIds : Parallel(ClientConnect(c, t, s))
    \/ \E c \in Conns : Parallel(ClientSend(c))
    \/ \E t \in TaskIds : Parallel(LoopStart(t))
    \/ \E t \in TaskIds : Parallel(LoopAcceptOk(t))
    \/ \E t \in TaskIds : Parallel(LoopWake(t))
    \/ \E t \in TaskIds : Parallel(LoopCancel(t))
    \/ \E c \in Conns : Parallel(HandlerRead(c))
    \/ \E c \in Conns : Parallel(HandlerDispatch(c))
    \/ \E c \in Conns : Parallel(HandlerWriteOk(c))
    \/ \E c \in Conns : Parallel(HandlerWriteErr(c))

\* a step of a client that sends its request, or of a handler task
HandlerStep ==
    \E c \in Conns :
        Parallel(\/ ClientSend(c)
                 \/ HandlerRead(c)
                 \/ HandlerDispatch(c)
                 \/ HandlerWriteOk(c)
                 \/ HandlerWriteErr(c))

\* the scheduling the claims about progress assume: clients that send their
\* requests, and a runtime that keeps polling the handler tasks
FairSpec == Init /\ [][NextShutdown]_vars /\ WF_vars(HandlerStep)

\* a server that is started once and keeps running, with accept() failing
\* now and then and clients that send a well-formed request
NextAccept ==
    \/ Parallel(ServeOnce)
    \/ \E c \in Conns, t \in TaskIds, s \in GetRootStreamIds : Parallel(ClientConnect(c, t, s))
    \/ \E c \in Conns : Parallel(ClientSend(c))
    \/ \E t \in TaskIds : Parallel(LoopStart(t))
    \/ \E t \in TaskIds : Parallel(LoopAcceptOk(t))
    \/ \E t \in TaskIds : Parallel(LoopAcceptErr(t))
    \/ \E t \in TaskIds : Parallel(LoopWake(t))
    \/ \E c \in Conns : Parallel(HandlerRead(c))
    \/ \E c \in Conns : Parallel(HandlerDispatch(c))
    \/ \E c \in Conns : Parallel(HandlerWriteOk(c))
    \/ \E c \in Conns : Parallel(HandlerWriteErr(c))

\* a step the accept loop takes when the runtime polls it: the first poll,
\* an accept() that finds a connection, the end of the sleep
LoopStep ==
    \E t \in TaskIds :
        Parallel(\/ LoopStart(t)
                 \/ LoopAcceptOk(t)
                 \/ LoopWake(t))

\* the runtime keeps polling the accept loop, whose timer keeps firing
FairAccept == Init /\ [][NextAccept]_vars /\ WF_vars(LoopStep)

(* ------------------ a runtime with a single thread --------------------- *)
\* The tasks share the one thread of the runtime.  A task that is polled has
\* the thread until it reaches an await that is not ready or returns; the
\* awaits are the sleep of the accept loop and the call of the Router, which
\* is ready at once.  accept(), lines() and write_all() are calls of std::net
\* and std::io: they block the thread, they do not suspend the task.

\* the streams of a client that asks for `/` and of one that stalls
CoopStreamIds == {1, 10}

OnThread(task) == worker = task
LoopTask(t) == << "loop", t >>
HandlerTask(c) == << "handler", c >>

\* the handler of c was spawned and not polled yet
Unpolled(c) == conns[c].pc = "read" /\ ~OnThread(HandlerTask(c))

CoopLoopStart(t) ==
    /\ OnThread(<<>>)
    /\ LoopStart(t)
    /\ worker' = LoopTask(t)
    /\ UNCHANGED probe

\* accept() returns a connection; the loop spawns the handler and suspends
\* at sleep(refresh_rate).await
CoopLoopAcceptOk(t) ==
    /\ OnThread(LoopTask(t))
    /\ LoopAcceptOk(t)
    /\ worker' = <<>>
    /\ UNCHANGED probe

\* the timer wakes the loop; a handler spawned before is polled before
CoopLoopWake(t) ==
    /\ OnThread(<<>>)
    /\ \A c \in Conns : ~Unpolled(c)
    /\ LoopWake(t)
    /\ worker' = LoopTask(t)
    /\ UNCHANGED probe

\* the first poll of a handler: it runs into lines().collect()
CoopHandlerPoll(c) ==
    /\ OnThread(<<>>)
    /\ conns[c].pc = "read"
    /\ worker' = HandlerTask(c)
    /\ UNCHANGED << server, probe >>

\* collect() returns once the client has ended its request; the handler
\* ends on an error or goes on to the Router
CoopHandlerRead(c) ==
    /\ OnThread(HandlerTask(c))
    /\ HandlerRead(c)
    /\ worker' = IF conns'[c].pc = "done" THEN <<>> ELSE worker
    /\ UNCHANGED probe

CoopHandlerDispatch(c) ==
    /\ OnThread(HandlerTask(c))
    /\ HandlerDispatch(c)
    /\ UNCHANGED << worker, probe >>

CoopHandlerWrite(c) ==
    /\ OnThread(HandlerTask(c))
    /\ (HandlerWriteOk(c) \/ HandlerWriteErr(c))
    /\ worker' = <<>>
    /\ UNCHANGED probe

NextCoop ==
    \/ Parallel(ServeOnce)
    \/ \E c \in Conns, t \in TaskIds, s \in CoopStreamIds : Parallel(ClientConnect(c, t, s))
    \/ \E c \in Conns : Parallel(ClientSend(c))
    \/ \E t \in TaskIds : CoopLoopStart(t)
    \/ \E t \in TaskIds : CoopLoopAcceptOk(t)
    \/ \E t \in TaskIds : CoopLoopWake(t)
    \/ \E c \in Conns : CoopHandlerPoll(c)
    \/ \E c \in Conns : CoopHandlerRead(c)
    \/ \E c \in Conns : CoopHandlerDispatch(c)
    \/ \E c \in Conns : CoopHandlerWrite(c)

\* a client sends what its stream holds
ClientStep == \E c \in Conns : Parallel(ClientSend(c))

\* a step of the task that has the thread, or the poll of a task when the
\* thread is free
ThreadStep ==
    \/ \E t \in TaskIds : CoopLoopStart(t) \/ CoopLoopAcceptOk(t) \/ CoopLoopWake(t)
    \/ \E c \in Conns : \/ CoopHandlerPoll(c)
                          \/ CoopHandlerRead(c)
                          \/ CoopHandlerDispatch(c)
                          \/ CoopHandlerWrite(c)

\* a fair cooperative scheduler: the thread never idles while a task can
\* run, and clients send their streams
FairCoop ==
    Init /\ [][NextCoop]_vars /\ WF_vars(ClientStep) /\ WF_vars(ThreadStep)

(* ------------- the functions of the handler on their own ---------------- *)
MaxLineLen == 5
MaxHeaders == 2

SeqsUpTo(S, n) == UNION {[1..k -> S] : k \in 0..n}

\* the bytes of the request lines tried: letters of a method, the space, the
\* tab, the slash of a target and a byte no target may hold
LineChars == {"G", "E", "T", " ", "\t", "/", "<"}
ProbeLines == SeqsUpTo(LineChars, MaxLineLen)

\* the responses tried: two status codes, every sequence of header entries
\* over two names and two values, a body that is empty, text, or holds a CRLF
ProbeHeaders == {[name |-> n, value |-> v] : n \in {"a", "b"}, v \in {"1", "2"}}
ProbeBodies == { <<>>, <<"h", "i">>, <<CRLF, "x">> }
ProbeResponses ==
    {[version |-> HttpVersion, status |-> st, headers |-> h, body |-> b] :
        st \in {200, 404}, h \in SeqsUpTo(ProbeHeaders, MaxHeaders), b \in ProbeBodies}

(* macros.rs: the path impl_routes! gives to a route *)
MaxParamLen == 3

Index == <<"i", "n", "d", "e", "x">>

\* the block of impl_routes! that computes the path of one route:
\* `/` for the route named index and `/<name>` for any other, and with
\* parameters (<< P >>; <<>> when the route has none) `/P` pushed after it
RoutePath(route, parameters) ==
    LET path == IF route = Index THEN << "/" >> ELSE << "/" >> \o route
    IN  IF parameters = <<>> THEN path
        ELSE path \o << "/" >> \o parameters[1]

\* the routes tried: index and other names, without parameters and with
\* every parameter string of slashes and segment bytes
RouteNames == { Index, <<"r">>, <<"i">>, <<"g", "e", "t">> }
ParamChars == {":", "u", "/"}
ProbeRoutes ==
    {[route |-> r, parameters |-> p] :
        r \in RouteNames,
        p \in {<<>>} \cup {<< q >> : q \in SeqsUpTo(ParamChars, MaxParamLen)}}

InitCodec ==
    /\ InitServer
    /\ worker = <<>>
    /\ probe \in {[kind |-> "line", input |-> l, done |-> FALSE, output |-> <<>>] :
                    l \in ProbeLines}
               \cup {[kind |-> "response", input |-> r, done |-> FALSE, output |-> <<>>] :
                    r \in ProbeResponses}
               \cup {[kind |-> "route", input |-> r, done |-> FALSE, output |-> <<>>] :
                    r \in ProbeRoutes}

\* the handler parses the first line it has collected
ParseLine ==
    /\ probe.kind = "line"
    /\ ~probe.done
    /\ probe' = [probe EXCEPT !.done = TRUE,
                              !.output = ParseRequestLine(probe.input)]
    /\ UNCHANGED << server, worker >>

\* the handler serialises the response it has got
SerializeResponse ==
    /\ probe.kind = "response"
    /\ ~probe.done
    /\ probe' = [probe EXCEPT !.done = TRUE,
                              !.output = response_to_bytes(probe.input)]
    /\ UNCHANGED << server, worker >>

\* impl_routes! computes the path of a route
ExpandRoute ==
    /\ probe.kind = "route"
    /\ ~probe.done
    /\ probe' = [probe EXCEPT !.done = TRUE,
                              !.output = RoutePath(probe.input.route,
                                                   probe.input.parameters)]
    /\ UNCHANGED << server, worker >>

NextCodec ==
    \/ ParseLine
    \/ SerializeResponse
    \/ ExpandRoute

SpecCodec == InitCodec /\ [][NextCodec]_vars

(* ======================= properties of the server ======================= *)
\* what the client of connection c sent, as the handler collects it: the
\* lines before the first empty line, or all of them
Collected(st) ==
    LET stop == FirstStop(st.items, 1)
    IN  IF stop = 0 THEN st.items ELSE SubSeq(st.items, 1, stop - 1)

\* the stream ends the request (an empty line, or end-of-stream) with every
\* line being text
Terminated(st) ==
    LET stop == FirstStop(st.items, 1)
    IN  IF stop = 0 THEN st.closes ELSE st.items[stop] = <<>>

Malformed(st) ==
    /\ Terminated(st)
    /\ \/ Collected(st) = <<>>
       \/ ~ParseRequestLine(Collected(st)[1]).ok

WellFormed(st) == Terminated(st) /\ ~Malformed(st)

Connected(c) == conns[c].stream # 0
StreamOf(c) == Streams[conns[c].stream]

\* the response the Router gives for the request of connection c, with its
\* whole body, and its serialization
RoutedResponse(c) ==
    LET routed == RouterCall(conns[c].request[1])
    IN  [version |-> routed.version,
         status |-> routed.status,
         headers |-> routed.headers,
         body |-> Concat([i \in 1..Len(routed.frames) |-> routed.frames[i].val])]

\* the index of the blank line that ends the head of a serialized response
RECURSIVE BlankAt(_, _)
BlankAt(bytes, i) ==
    IF i > Len(bytes) THEN 0
    ELSE IF bytes[i] = CRLF /\ bytes[i - 1] = CRLF THEN i
    ELSE BlankAt(bytes, i + 1)

HeadOf(bytes) == Prefix(bytes, BlankAt(bytes, 2))
BodyOf(bytes) == SubSeq(bytes, BlankAt(bytes, 2) + 1, Len(bytes))

\* the handler of c has returned after a write_all that delivered everything
Answered(c) ==
    /\ conns[c].pc = "done"
    /\ conns[c].writes = 1
    /\ conns[c].wire = conns[c].attempted

InHandler(c) == conns[c].pc \in {"read", "dispatch", "write"}

(* ------------------------------- C1 ------------------------------------- *)
\* C1: for every well-formed request, the status line and the header lines
\* written to the connection are those of the response the Router returned
\* for that request.
C1_HeadIsTheRoutersHead ==
    \A c \in Conns :
        Answered(c) =>
            HeadOf(conns[c].wire) = HeadOf(response_to_bytes(RoutedResponse(c)))

(* ------------------------------- C2 ------------------------------------- *)
\* C2: for every well-formed request, the bytes written after the blank line
\* are the complete body the Router produced, in however many data frames it
\* was delivered.
C2_BodyIsTheRoutersBody ==
    \A c \in Conns :
        Answered(c) => BodyOf(conns[c].wire) = RoutedResponse(c).body

(* ------------------------------- C3 ------------------------------------- *)
\* C3: a connection that delivers no non-empty line before the first empty
\* line or end-of-stream, or whose first line fails request-line parsing, has
\* its handler return an error, with the Router never invoked and no byte
\* written.
C3_MalformedIsDroppedSilently ==
    \A c \in Conns :
        (Connected(c) /\ Malformed(StreamOf(c))) =>
            /\ conns[c].pc \in {"pending", "read", "done"}
            /\ conns[c].dispatched = 0
            /\ conns[c].writes = 0
            /\ conns[c].wire = <<>>
            /\ conns[c].pc = "done" => conns[c].result = "Err"

\* one handler has returned on an empty request and another on a request
\* line that does not parse
C3_Witness ==
    \E c, d \in Conns :
        /\ conns[c].pc = "done" /\ conns[d].pc = "done"
        /\ Collected(StreamOf(c)) = <<>>
        /\ Collected(StreamOf(d)) # <<>>
        /\ Malformed(StreamOf(d))
        /\ conns[c].result = "Err" /\ conns[d].result = "Err"

(* ------------------------------- C4 ------------------------------------- *)
\* C4: the handler of a well-formed request makes exactly one write attempt,
\* carrying the whole serialized response, and returns Ok whether the write
\* succeeded or failed; no connection ever gets a second write attempt.
C4_ExactlyOneWriteAttempt ==
    \A c \in Conns :
        /\ conns[c].writes <= 1
        /\ (conns[c].pc = "done" /\ WellFormed(StreamOf(c))) =>
              /\ conns[c].writes = 1
              /\ conns[c].attempted = response_to_bytes(conns[c].response[1])
              /\ conns[c].wire = Prefix(conns[c].attempted, Len(conns[c].wire))
              /\ conns[c].result = "Ok"

\* a handler has returned Ok after a write that failed part-way
C4_Witness ==
    \E c \in Conns :
        /\ conns[c].pc = "done"
        /\ WellFormed(StreamOf(c))
        /\ conns[c].writes = 1
        /\ conns[c].wire # <<>>
        /\ conns[c].wire # conns[c].attempted
        /\ conns[c].result = "Ok"

(* ------------------------------- C5 ------------------------------------- *)
\* C5: shutdown() on a handle with no stored task aborts nothing, changes no
\* state and logs nothing; so a shutdown() that directly follows a shutdown()
\* leaves the server and its log as the first one left them.
C5_ShutdownIsIdempotent ==
    [][(Shutdown /\ (main_task = <<>> \/ ret = "()"))
          => UNCHANGED << addr, main_task, tasks, conns, log >>]_vars

\* serve(), shutdown(), shutdown() were called, and `Stopped.` was logged once
C5_Witness ==
    /\ calls = 3
    /\ ret = "()"
    /\ log["Started!"] = 1
    /\ log["bind error"] = 0
    /\ log["Stopped."] = 1
    /\ main_task = <<>>

(* ------------------------------- C6 ------------------------------------- *)
\* C6: once shutdown() has aborted the accept loop, the loop makes no further
\* accept() call and spawns no further handler, wherever it was at the moment
\* of the call: its only remaining step is its cancellation.
C6_AbortedLoopStopsAtOnce ==
    [][\A t \in TaskIds :
          tasks[t].aborted =>
              /\ tasks'[t].accepts = tasks[t].accepts
              /\ tasks'[t].pc \in {tasks[t].pc, "cancelled"}]_vars

(* ------------------------------- C7 ------------------------------------- *)
\* a handler that runs although abort() was called on the loop that spawned it
Orphaned(c) == InHandler(c) /\ tasks[conns[c].by].aborted

Active(t) ==
    \/ tasks[t].pc = "accept"
    \/ tasks[t].pc \in {"spawned", "sleep"} /\ ~tasks[t].aborted

\* C8: after any sequence of serve() and shutdown() calls at most one accept
\* loop of the handle is active, and main_task refers to it.
C8_AtMostOneActiveLoop ==
    /\ Cardinality({t \in TaskIds : Active(t)}) <= 1
    /\ \A t \in TaskIds : Active(t) => main_task = << t >>

(* ------------------------------- C9 ------------------------------------- *)
\* C9: when binding the listening socket fails, serve() returns the error,
\* spawns no accept loop and leaves main_task as it was.
C9_BindFailureChangesNothing ==
    [][ServeBindErr =>
          /\ ret' = "Err"
          /\ main_task' = main_task
          /\ tasks' = tasks]_vars

\* serve() has failed on a handle that holds a running loop
C9_Witness ==
    /\ ret = "Err"
    /\ main_task # <<>>
    /\ Active(main_task[1])

(* ------------------------------- C10 ------------------------------------ *)
\* the handler of d has built its Request
HasRequest(d) == conns[d].pc = "dispatch" \/ conns[d].dispatched = 1

\* C10: with connections handled concurrently, each requesting its own
\* target, every connection is written exactly the response the Router
\* associates with its own target, under every interleaving of the handlers.
C10_EachGetsItsOwnResponse ==
    \A c, d \in Conns :
        (/\ Answered(c)
         /\ c # d
         /\ HasRequest(d)
         /\ conns[c].request[1].uri # conns[d].request[1].uri)
        => conns[c].wire = response_to_bytes(RoutedResponse(c))

(* ------------------------------- C11 ------------------------------------ *)
Parsed == probe.kind = "line" /\ probe.done

\* str::split_whitespace: the maximal runs of bytes that are no whitespace
Whitespace == {" ", "\t"}
RECURSIVE WordsAcc(_, _, _)
WordsAcc(s, cur, acc) ==
    LET closed == IF cur = <<>> THEN acc ELSE Append(acc, cur)
    IN  IF s = <<>> THEN closed
        ELSE IF Head(s) \in Whitespace THEN WordsAcc(Tail(s), <<>>, closed)
        ELSE WordsAcc(Tail(s), Append(cur, Head(s)), acc)

Words(line) == WordsAcc(line, <<>>, <<>>)

\* the line is `method`, one space, `target`, and then nothing or a space
\* and anything
StartsWith(line, method, target) ==
    LET n == Len(method) + 1 + Len(target)
    IN  /\ Len(line) >= n
        /\ SubSeq(line, 1, n) = method \o << SP >> \o target
        /\ (Len(line) > n => line[n + 1] = SP)

\* C11 as stated: whenever the first two whitespace-separated tokens of the
\* first line are a valid method and a valid target, parsing succeeds with
\* these two tokens, whatever whitespace separates them and whatever follows.
C11_AnyWhitespaceSeparates ==
    Parsed =>
        LET w == Words(probe.input)
        IN  (/\ Len(w) >= 2
             /\ MethodFromBytes(w[1]).ok
             /\ UriParse(w[2]).ok)
            => /\ probe.output.ok
               /\ probe.output.method = w[1]
               /\ probe.output.uri = w[2]

\* C11, amended: whenever the first line is a valid method, exactly one
\* space, a valid target, and then nothing or a space followed by anything
\* (no version, an unsupported version, extra tokens), parsing succeeds with
\* method and target equal to these two tokens.
C11_OneSpaceSeparates ==
    Parsed =>
        \A i \in 1..Len(probe.input), j \in 1..Len(probe.input) :
            LET method == SubSeq(probe.input, 1, i)
                target == SubSeq(probe.input, i + 2, j)
            IN  (/\ j >= i + 2
                 /\ MethodFromBytes(method).ok
                 /\ UriParse(target).ok
                 /\ StartsWith(probe.input, method, target))
                => /\ probe.output.ok
                   /\ probe.output.method = method
                   /\ probe.output.uri = target

\* a line of method, target and a third token that is no version was parsed
C11_Witness ==
    /\ Parsed
    /\ probe.output.ok
    /\ Len(Split(probe.input)) = 3
    /\ Split(probe.input)[3] = << "<" >>

(* ------------------------------- C12 ------------------------------------ *)
\* of the standard methods of the http crate, the one LineChars can spell
StandardMethods == { GET }

\* C12 as stated: a first line with fewer than two tokens fails as
\* MissingToken, one with an unrecognized method as InvalidMethod, one with
\* an invalid target as InvalidTarget.
C12_EachDefectHasItsKind ==
    Parsed =>
        LET w == Split(probe.input)
        IN  IF Len(w) < 2
            THEN ~probe.output.ok /\ probe.output.err = "MissingToken"
            ELSE IF w[1] \notin StandardMethods
            THEN ~probe.output.ok /\ probe.output.err = "InvalidMethod"
            ELSE IF ~UriParse(w[2]).ok
            THEN ~probe.output.ok /\ probe.output.err = "InvalidTarget"
            ELSE TRUE

\* C12, amended: a first line that is empty, has a single token, has a first
\* token that is no well-formed method token, or has an invalid target fails
\* to parse, and every one of these failures has the one error kind
\* InvalidData.
C12_EveryDefectIsInvalidData ==
    Parsed =>
        LET w == Split(probe.input)
        IN  (\/ Len(w) < 2
             \/ ~MethodFromBytes(w[1]).ok
             \/ ~UriParse(w[2]).ok)
            => ~probe.output.ok /\ probe.output.err = InvalidData

\* a line with a valid method and an invalid target was parsed
C12_Witness ==
    /\ Parsed
    /\ Len(Split(probe.input)) >= 2
    /\ MethodFromBytes(Split(probe.input)[1]).ok
    /\ ~UriParse(Split(probe.input)[2]).ok
    /\ ~probe.output.ok

(* ------------------------------- C13 ------------------------------------ *)
Serialized == probe.kind = "response" /\ probe.done

\* the status line the claims describe
StatusLine(response) ==
    << response.version, SP, StatusText(response.status), SP,
       CanonicalReason(response.status), CRLF >>

\* one `<name>: <value>\r\n` line per entry, in the order of the entries
RECURSIVE LinePerEntry(_)
LinePerEntry(headers) ==
    IF headers = <<>> THEN <<>>
    ELSE << Head(headers).name, ": ", Head(headers).value, CRLF >>
         \o LinePerEntry(Tail(headers))

\* no two header entries of the response share a name
DistinctNames(headers) ==
    \A i, j \in 1..Len(headers) : headers[i].name = headers[j].name => i = j

\* C13: the serialized bytes of every response are its status line, its
\* header lines, one CRLF (also when there is no header) and the body bytes
\* as they are, with no header that is not in the response.
C13_StatusHeadersBlankBody ==
    Serialized =>
        probe.output = StatusLine(probe.input)
                       \o LinePerEntry(probe.input.headers)
                       \o << CRLF >>
                       \o probe.input.body

\* the layout holds for the responses whose header names are all different
LayoutOfDistinctNames ==
    (Serialized /\ DistinctNames(probe.input.headers)) =>
        probe.output = StatusLine(probe.input)
                       \o LinePerEntry(probe.input.headers)
                       \o << CRLF >>
                       \o probe.input.body

(* ------------------------------- C14 ------------------------------------ *)
\* the bytes between the status line and the blank line
HeaderPart(bytes, n) == SubSeq(bytes, 7, 6 + 4 * n)

\* C14: for every sequence of header entries, also one in which entries
\* share a name, serialization completes without aborting and emits one
\* `<name>: <value>\r\n` line per entry, in the order of insertion.
C14_OneLinePerEntryInOrder ==
    Serialized =>
        /\ probe.output # Panic
        /\ HeaderPart(probe.output, Len(probe.input.headers))
              = LinePerEntry(probe.input.headers)

(* ------------------------------- C15 ------------------------------------ *)
\* C15: every accept attempt of the accept loop, whether it accepted a
\* connection or returned an error, leaves the loop at the poll-interval
\* sleep, so that no two accepts happen without a suspension in between.
C15_SleepBetweenAccepts ==
    [][\A t \in TaskIds :
          tasks'[t].accepts > tasks[t].accepts => tasks'[t].pc = "sleep"]_vars

(* ------------------------------- C17 ------------------------------------ *)
Ended(c) == conns[c].pc \in {"done", "panicked"}

\* the handler of c ended on an error, a panic or a failed write
EndedBadly(c) ==
    \/ conns[c].pc = "panicked"
    \/ conns[c].pc = "done" /\ conns[c].result = "Err"
    \/ conns[c].pc = "done" /\ conns[c].wire # conns[c].attempted

\* what the handler of a connection does with a stream when it is left alone
OutcomeAlone(d) ==
    IF Malformed(StreamOf(d))
    THEN /\ conns[d].result = "Err"
         /\ conns[d].writes = 0
         /\ conns[d].dispatched = 0
    ELSE LET parsed == ParseRequestLine(Collected(StreamOf(d))[1])
             request == NewRequest(parsed.method, parsed.uri)
         IN  /\ conns[d].result = "Ok"
             /\ conns[d].writes = 1
             /\ conns[d].dispatched = 1
             /\ conns[d].attempted =
                   response_to_bytes(request_to_response(RouterCall(request)))

\* C17: whatever way a handler ends (empty request, malformed request line,
\* a line that is no text, failed write), the step that ends it changes
\* neither the accept loops nor any other connection, and every other
\* handler that returns has the outcome it has when left alone.
C17_HandlerEndsAreIsolated ==
    /\ [][\A c \in Conns :
            (~Ended(c) /\ Ended(c)') =>
                /\ tasks' = tasks
                /\ main_task' = main_task
                /\ \A d \in Conns \ {c} : conns'[d] = conns[d]]_vars
    /\ [](\A c, d \in Conns :
            (c # d /\ EndedBadly(c) /\ conns[d].pc = "done") => OutcomeAlone(d))

\* a handler has panicked on a line that is no text, another one has
\* answered its client, and the accept loop is still there
C17_Witness ==
    \E c, d \in Conns :
        /\ conns[c].pc = "panicked"
        /\ Answered(d)
        /\ \E t \in TaskIds : tasks[t].pc \in {"accept", "sleep"}

(* ------------------------------- C19 ------------------------------------ *)
\* C19: an accepted connection is open for as long as its handler runs,
\* nobody else closing it, and is closed once the handler has ended, on
\* whatever path it ended.
C19_ClosedExactlyAtTheEnd ==
    \A c \in Conns :
        /\ InHandler(c) => conns[c].open
        /\ Ended(c) => ~conns[c].open

\* one handler has returned on a request line that does not parse, another
\* after a failed write, and both connections are closed
C19_Witness ==
    \E c, d \in Conns :
        /\ conns[c].pc = "done" /\ conns[c].result = "Err"
        /\ conns[c].http_request # <<>>
        /\ conns[d].pc = "done" /\ conns[d].writes = 1
        /\ conns[d].wire # conns[d].attempted
        /\ ~conns[c].open /\ ~conns[d].open

(* ------------------------------- C20 ------------------------------------ *)
\* C20: the Request given to the Router depends on the first line alone:
\* connections with equal first lines, whatever header lines and body bytes
\* follow, give equal Requests, with no header and an empty body.
C20_RequestIsTheFirstLine ==
    \A c, d \in Conns :
        (/\ HasRequest(c)
         /\ HasRequest(d)
         /\ Collected(StreamOf(c))[1] = Collected(StreamOf(d))[1])
        => /\ conns[c].request = conns[d].request
           /\ conns[c].request[1].headers = <<>>
           /\ conns[c].request[1].body = <<>>

\* the Router was called for two connections that sent the same first line,
\* one followed by a header line and a body, the other by another header line
C20_Witness ==
    \E c, d \in Conns :
        /\ conns[c].dispatched = 1 /\ conns[d].dispatched = 1
        /\ StreamOf(c).items[1] = StreamOf(d).items[1]
        /\ Collected(StreamOf(c)) # Collected(StreamOf(d))
        /\ LineBody \in {StreamOf(c).items[i] : i \in 1..Len(StreamOf(c).items)}

(* ------------------------------- C18 ------------------------------------ *)
\* the accept() of loop t returns an error in this step
AcceptFails(t) ==
    /\ log'["accept error"] > log["accept error"]
    /\ tasks'[t].accepts > tasks[t].accepts

\* C18: an accept error leaves the accept loop running, at its next
\* accept() and with its listener as it was, and a connection waiting at the
\* listener after accept errors is accepted and given to a handler task.
C18_AcceptErrorsAreSurvived ==
    /\ [][\A t \in TaskIds :
            AcceptFails(t) => /\ tasks'[t].pc = "accept"
                              /\ tasks'[t].backlog = tasks[t].backlog]_vars
    /\ \A c \in Conns :
          (conns[c].pc = "pending" /\ log["accept error"] > 0)
          ~> (conns[c].pc = "read" /\ conns[c].by \in TaskIds)

\* the loop has accepted its one connection in the attempt that followed
\* MaxAcceptErrs failed ones
C18_Witness ==
    \E t \in TaskIds :
        /\ log["accept error"] = MaxAcceptErrs
        /\ log["connected"] = 1
        /\ tasks[t].accepts = MaxAcceptErrs + 1
        /\ tasks[t].pc = "sleep"
        /\ \E c \in Conns : conns[c].by = t /\ InHandler(c)

(* ------------------------------- C16 ------------------------------------ *)
\* C16: under a fair cooperative scheduler, whatever another handler is
\* waiting for from its client, a connection with a well-formed request that
\* waits at the listener is eventually accepted and answered.
C16_WaitingHandlerBlocksNobody ==
    \A c \in Conns :
        (conns[c].pc = "pending" /\ WellFormed(StreamOf(c)))
        ~> (conns[c].pc = "done" /\ conns[c].writes = 1)

(* ------------------------------- C21 ------------------------------------ *)
Expanded == probe.kind = "route" /\ probe.done

\* a parameter string of non-empty segments: it is not empty, neither
\* starts nor ends with a slash and holds no two slashes in a row
Segments(p) ==
    /\ p # <<>>
    /\ p[1] # "/"
    /\ p[Len(p)] # "/"
    /\ \A k \in 1..(Len(p) - 1) : ~(p[k] = "/" /\ p[k + 1] = "/")

\* C21: the path of the route named index is `/`, the path of any other
\* route r is `/r`, and with a parameter string P of segments the path is
\* that path extended by P: for every route name, index too, it starts with
\* exactly one slash and has no empty segment `//`.
C21_RoutePathsAreWellFormed ==
    Expanded =>
        LET route == probe.input.route
            parameters == probe.input.parameters
            path == probe.output
        IN  /\ parameters = <<>> =>
                  path = IF route = Index THEN << "/" >> ELSE << "/" >> \o route
            /\ (parameters # <<>> /\ Segments(parameters[1])) =>
                  /\ path[1] = "/"
                  /\ path[2] # "/"
                  /\ \A k \in 1..(Len(path) - 1) :
                         ~(path[k] = "/" /\ path[k + 1] = "/")
                  /\ SubSeq(path, Len(path) - Len(parameters[1]) + 1, Len(path))
                        = parameters[1]

\* the paths of the routes that are not named index are well-formed
PathsOfNamedRoutes ==
    (Expanded /\ probe.input.route # Index) => C21_RoutePathsAreWellFormed

====
